---- MODULE Spec2Model ----
(***************************************************************************)
(* Model of streaming_decoder.py: the hex/integer helpers, the per-event   *)
(* decoders, the generator stream_decode_from_file and the driver main.    *)
(*                                                                         *)
(* A Python str is a sequence of one-character strings.  A Python int is   *)
(* arbitrary precision; it is a record [neg, mag] whose magnitude is a     *)
(* little-endian sequence of limbs in base LimbBase with no leading zero   *)
(* limb, so that the 2**255 and 2**256 of the source keep their values.    *)
(* Python's None is the one-element sequence NoneVal where a str may also  *)
(* appear, and a record of kind "None" where a dict may also appear.       *)
(***************************************************************************)
EXTENDS Integers, Sequences, FiniteSets, TLC

(***************************************************************************)
(* Characters and Python str built-ins                                     *)
(***************************************************************************)
NoneVal == <<"None">>

HexVal ==
    [c \in {"0","1","2","3","4","5","6","7","8","9",
            "a","b","c","d","e","f","A","B","C","D","E","F"} |->
       CASE c = "0" -> 0  [] c = "1" -> 1  [] c = "2" -> 2  [] c = "3" -> 3
         [] c = "4" -> 4  [] c = "5" -> 5  [] c = "6" -> 6  [] c = "7" -> 7
         [] c = "8" -> 8  [] c = "9" -> 9
         [] c \in {"a","A"} -> 10  [] c \in {"b","B"} -> 11
         [] c \in {"c","C"} -> 12  [] c \in {"d","D"} -> 13
         [] c \in {"e","E"} -> 14  [] c \in {"f","F"} -> 15]

IsHexChar(c) == c \in DOMAIN HexVal

LowerChar(c) ==
    CASE c = "A" -> "a" [] c = "B" -> "b" [] c = "C" -> "c" [] c = "D" -> "d"
      [] c = "E" -> "e" [] c = "F" -> "f" [] c = "X" -> "x" [] OTHER -> c

\* str.lower()
lower(s) == [i \in 1..Len(s) |-> LowerChar(s[i])]

\* str.startswith("0x")
startswith0x(s) == Len(s) >= 2 /\ s[1] = "0" /\ s[2] = "x"

\* s[n:]
SliceFrom(s, n) == SubSeq(s, n + 1, Len(s))

\* s[-n:]
SliceLast(s, n) == IF Len(s) <= n THEN s ELSE SubSeq(s, Len(s) - n + 1, Len(s))

\* s[a:b] with 0 <= a <= b
Slice(s, a, b) == SubSeq(s, a + 1, IF b > Len(s) THEN Len(s) ELSE b)

\* c * n
Rep(c, n) == [i \in 1..n |-> c]

\* str.rjust(width, '0')
rjust0(s, width) == Rep("0", width - Len(s)) \o s

(***************************************************************************)
(* Python int: arbitrary-precision arithmetic                              *)
(***************************************************************************)
LimbBase == 10 ^ 7
LimbDigits == <<"0","1","2","3","4","5","6","7","8","9">>

RECURSIVE MagMulAdd(_, _, _)
\* m * k + c for a small factor k and a carry c
MagMulAdd(m, k, c) ==
    IF m = <<>> THEN (IF c = 0 THEN <<>> ELSE <<c>>)
    ELSE LET v == m[1] * k + c
         IN  <<v % LimbBase>> \o MagMulAdd(Tail(m), k, v \div LimbBase)

RECURSIVE MagStrip(_)
MagStrip(m) ==
    IF m = <<>> THEN <<>>
    ELSE IF m[Len(m)] = 0 THEN MagStrip(SubSeq(m, 1, Len(m) - 1)) ELSE m

RECURSIVE MagCmpFrom(_, _, _)
MagCmpFrom(a, b, i) ==
    IF i = 0 THEN 0
    ELSE IF a[i] > b[i] THEN 1
    ELSE IF a[i] < b[i] THEN -1
    ELSE MagCmpFrom(a, b, i - 1)

\* -1, 0, 1 as a < b, a = b, a > b
MagCmp(a, b) ==
    IF Len(a) > Len(b) THEN 1
    ELSE IF Len(a) < Len(b) THEN -1
    ELSE MagCmpFrom(a, b, Len(a))

RECURSIVE MagAddC(_, _, _)
MagAddC(a, b, c) ==
    IF a = <<>> /\ b = <<>> THEN (IF c = 0 THEN <<>> ELSE <<c>>)
    ELSE LET x == IF a = <<>> THEN 0 ELSE a[1]
             y == IF b = <<>> THEN 0 ELSE b[1]
             v == x + y + c
         IN  <<v % LimbBase>> \o
             MagAddC(IF a = <<>> THEN <<>> ELSE Tail(a),
                     IF b = <<>> THEN <<>> ELSE Tail(b), v \div LimbBase)

RECURSIVE MagSubB(_, _, _)
\* a - b - borrow, for a >= b
MagSubB(a, b, br) ==
    IF a = <<>> THEN <<>>
    ELSE LET y == IF b = <<>> THEN 0 ELSE b[1]
             v == a[1] - y - br
         IN  <<IF v < 0 THEN v + LimbBase ELSE v>> \o
             MagSubB(Tail(a), IF b = <<>> THEN <<>> ELSE Tail(b),
                     IF v < 0 THEN 1 ELSE 0)

MkInt(neg, mag) == [neg |-> neg /\ mag # <<>>, mag |-> mag]

IntOf(n) == MkInt(n < 0, MagMulAdd(<<>>, 0, IF n < 0 THEN -n ELSE n))

IntNeg(x) == MkInt(~x.neg, x.mag)

IntAdd(x, y) ==
    IF x.neg = y.neg THEN MkInt(x.neg, MagAddC(x.mag, y.mag, 0))
    ELSE IF MagCmp(x.mag, y.mag) >= 0
         THEN MkInt(x.neg, MagStrip(MagSubB(x.mag, y.mag, 0)))
         ELSE MkInt(y.neg, MagStrip(MagSubB(y.mag, x.mag, 0)))

IntSub(x, y) == IntAdd(x, IntNeg(y))

\* x >= y
IntGeq(x, y) ==
    IF x.neg # y.neg THEN y.neg
    ELSE IF x.neg THEN MagCmp(x.mag, y.mag) <= 0
    ELSE MagCmp(x.mag, y.mag) >= 0

RECURSIVE MagShl(_, _)
\* m * 2**n.  The doublings are split in halves and the first half is bound
\* by a quantifier, so that it is a value before the second half starts and
\* the evaluation stays shallow.
MagShl(m, n) ==
    IF n <= 4 THEN MagMulAdd(m, 2 ^ n, 0)
    ELSE CHOOSE r \in {MagShl(half, n - (n \div 2)) :
                          half \in {MagShl(m, n \div 2)}} : TRUE

\* 2**n
Pow2(n) == MkInt(FALSE, MagShl(<<1>>, n))

RECURSIVE LimbStr(_, _)
\* the low `width` decimal digits of limb v, most significant first
LimbStr(v, width) ==
    IF width = 0 THEN <<>>
    ELSE LimbStr(v \div 10, width - 1) \o <<LimbDigits[(v % 10) + 1]>>

RECURSIVE TopLimbStr(_)
TopLimbStr(v) ==
    IF v < 10 THEN <<LimbDigits[v + 1]>>
    ELSE TopLimbStr(v \div 10) \o <<LimbDigits[(v % 10) + 1]>>

RECURSIVE MagStr(_)
MagStr(m) ==
    IF Len(m) = 1 THEN TopLimbStr(m[1])
    ELSE MagStr(Tail(m)) \o LimbStr(m[1], 7)

\* str(int): the decimal string
str(x) ==
    IF x.mag = <<>> THEN <<"0">>
    ELSE (IF x.neg THEN <<"-">> ELSE <<>>) \o MagStr(x.mag)

(***************************************************************************)
(* Results of calls that may raise: exc names the exception ("none" when   *)
(* the call returns) and val is the returned value.                        *)
(***************************************************************************)
Return(v) == [exc |-> "none", val |-> v]
Raise(e) == [exc |-> e, val |-> NoneVal]

\* dict.get(key, default): a dict is a record, an absent key an absent field
dictget(d, key, default) == IF key \in DOMAIN d THEN d[key] ELSE default

\* the None that stands where a dict may stand
NoneDict == [isNone |-> TRUE]

\* truth value of a str, a list or None
Truthy(v) == v # NoneVal /\ v # <<>>

RECURSIVE Horner16(_, _, _, _)
\* acc * 16**(hi - lo + 1) + the base-16 number s[lo..hi], digit by digit
\* from the left (the range is split in halves as in MagShl)
Horner16(s, lo, hi, acc) ==
    IF lo > hi THEN acc
    ELSE IF lo = hi THEN MagMulAdd(acc, 16, HexVal[s[lo]])
    ELSE LET mid == (lo + hi) \div 2
         IN  CHOOSE r \in {Horner16(s, mid + 1, hi, left) :
                             left \in {Horner16(s, lo, mid, acc)}} : TRUE

\* int(h, 16) over the characters of the model: an optional 0x / 0X prefix,
\* then one or more hexadecimal digits; anything else is a ValueError
int16(h) ==
    LET body == IF Len(h) >= 2 /\ h[1] = "0" /\ h[2] \in {"x", "X"}
                THEN SliceFrom(h, 2) ELSE h
    IN  IF body = <<>> \/ \E i \in 1..Len(body) : ~IsHexChar(body[i])
        THEN Raise("ValueError")
        ELSE Return(MkInt(FALSE, Horner16(body, 1, Len(body), <<>>)))

(***************************************************************************)
(* Basic helpers (streaming_decoder.py lines 12-30)                        *)
(***************************************************************************)
normalize_addr(addr) == IF Truthy(addr) THEN lower(addr) ELSE addr

hex_to_int(h) ==
    IF ~Truthy(h) \/ h = <<"0", "x">> THEN Return(IntOf(0))
    ELSE int16(h)

\* split_32byte_chunks without the rjust of line 23
split_32byte_chunks_nopad(data_hex) ==
    LET d == IF startswith0x(data_hex) THEN SliceFrom(data_hex, 2) ELSE data_hex
    IN  IF d = <<>> THEN <<>>
        ELSE [k \in 1..((Len(d) + 63) \div 64) |->
                Slice(d, 64 * (k - 1), 64 * (k - 1) + 64)]

split_32byte_chunks(data_hex) ==
    LET d == IF startswith0x(data_hex) THEN SliceFrom(data_hex, 2) ELSE data_hex
    IN  IF d = <<>> THEN <<>>
        ELSE LET p == IF Len(d) % 64 # 0
                      THEN rjust0(d, ((Len(d) \div 64) + 1) * 64)
                      ELSE d
             IN  [k \in 1..((Len(p) + 63) \div 64) |->
                    Slice(p, 64 * (k - 1), 64 * (k - 1) + 64)]

TwoPow255 == Pow2(255)
TwoPow256 == Pow2(256)

\* lines 28-30 with `val > 2**255` for the test of line 28
int256_of_gt(r) ==
    IF r.exc # "none" THEN r
    ELSE IF IntGeq(r.val, TwoPow255) /\ r.val # TwoPow255
         THEN Return(IntSub(r.val, TwoPow256))
         ELSE r

\* lines 28-30, on what int(slot_hex, 16) gave
int256_of(r) ==
    IF r.exc # "none" THEN r
    ELSE IF IntGeq(r.val, TwoPow255)
         THEN Return(IntSub(r.val, TwoPow256))
         ELSE r

int256_from_hexslot(slot_hex) == int256_of(int16(slot_hex))

(***************************************************************************)
(* Registry (lines 33-44)                                                  *)
(***************************************************************************)
ADDR_USDC ==
    <<"0","x","a","0","b","8","6","9","9","1","c","6","2","1","8","b","3","6","c","1","d","1",
      "9","d","4","a","2","e","9","e","b","0","c","e","3","6","0","6","e","b","4","8">>

ADDR_USDT ==
    <<"0","x","d","a","c","1","7","f","9","5","8","d","2","e","e","5","2","3","a","2","2","0",
      "6","2","0","6","9","9","4","5","9","7","c","1","3","d","8","3","1","e","c","7">>

ADDR_WBTC ==
    <<"0","x","2","2","6","0","f","a","c","5","e","5","5","4","2","a","7","7","3","a","a","4",
      "4","f","b","c","f","e","d","f","7","c","1","9","3","b","c","2","c","5","9","9">>

ADDR_UNISWAP ==
    <<"0","x","c","3","6","4","4","2","b","4","a","4","5","2","2","e","8","7","1","3","9","9",
      "c","d","7","1","7","a","b","d","d","8","4","7","a","b","1","1","f","e","8","8">>

ADDR_AAVE ==
    <<"0","x","8","7","8","7","0","b","c","a","3","f","3","f","d","6","3","3","5","c","3","f",
      "4","c","e","8","3","9","2","d","6","9","3","5","0","b","4","f","a","4","e","2">>

SIG_TRANSFER ==
    <<"0","x","d","d","f","2","5","2","a","d","1","b","e","2","c","8","9","b","6","9","c","2",
      "b","0","6","8","f","c","3","7","8","d","a","a","9","5","2","b","a","7","f","1","6","3",
      "c","4","a","1","1","6","2","8","f","5","5","a","4","d","f","5","2","3","b","3","e","f">>

SIG_APPROVAL ==
    <<"0","x","8","c","5","b","e","1","e","5","e","b","e","c","7","d","5","b","d","1","4","f",
      "7","1","4","2","7","d","1","e","8","4","f","3","d","d","0","3","1","4","c","0","f","7",
      "b","2","2","9","1","e","5","b","2","0","0","a","c","8","c","7","c","3","b","9","2","5">>

KNOWN ==
    (ADDR_USDC :> [name |-> "USDC", type |-> "token", decimals |-> 6]) @@
    (ADDR_USDT :> [name |-> "USDT", type |-> "token", decimals |-> 6]) @@
    (ADDR_WBTC :> [name |-> "WBTC", type |-> "token", decimals |-> 8]) @@
    (ADDR_UNISWAP :> [name |-> "UniswapV3:NFTManager", type |-> "dex",
                      subtype |-> "uniswap_v3"]) @@
    (ADDR_AAVE :> [name |-> "AaveV3:LendingPool", type |-> "lending",
                   subtype |-> "aave_v3"])

EVENT_SIG_MAP == (SIG_TRANSFER :> "Transfer") @@ (SIG_APPROVAL :> "Approval")

(***************************************************************************)
(* Decoders (lines 46-71)                                                  *)
(***************************************************************************)
\* lines 48-53 with the indices of lines 48 and 49 exchanged
erc20_fields_swapped(t, value, decimals) ==
    IF value.exc # "none" THEN value
    ELSE Return([from |-> IF Len(t) > 2 /\ Truthy(t[3])
                          THEN <<"0", "x">> \o SliceLast(t[3], 40) ELSE NoneVal,
                 to |-> IF Len(t) > 1 /\ Truthy(t[2])
                        THEN <<"0", "x">> \o SliceLast(t[2], 40) ELSE NoneVal,
                 value_raw |-> str(value.val),
                 value |-> [num |-> value.val, pow10 |-> decimals],
                 decimals |-> decimals])

\* lines 48-53, on t, value and decimals.  value / (10 ** decimals) is a
\* float; it is kept as the unevaluated quotient.  No registry entry carries
\* "decimals": None, so the `decimals is not None` alternative of line 52 is
\* never taken.
erc20_fields(t, value, decimals) ==
    IF value.exc # "none" THEN value
    ELSE Return([from |-> IF Len(t) > 1 /\ Truthy(t[2])
                          THEN <<"0", "x">> \o SliceLast(t[2], 40) ELSE NoneVal,
                 to |-> IF Len(t) > 2 /\ Truthy(t[3])
                        THEN <<"0", "x">> \o SliceLast(t[3], 40) ELSE NoneVal,
                 value_raw |-> str(value.val),
                 value |-> [num |-> value.val, pow10 |-> decimals],
                 decimals |-> decimals])

decode_erc20_transfer(log, token_info) ==
    erc20_fields(dictget(log, "topics", <<>>),
                 hex_to_int(dictget(log, "data", <<"0", "x", "0">>)),
                 IF token_info # NoneDict
                 THEN dictget(token_info, "decimals", 18) ELSE 18)

\* line 65, on the five values
uniswap_fields(amount0, amount1, sqrtPriceX96, liquidity, tick) ==
    IF amount0.exc # "none" THEN amount0
    ELSE IF amount1.exc # "none" THEN amount1
    ELSE IF sqrtPriceX96.exc # "none" THEN sqrtPriceX96
    ELSE IF liquidity.exc # "none" THEN liquidity
    ELSE IF tick.exc # "none" THEN tick
    ELSE Return([amount0_raw |-> str(amount0.val),
                 amount1_raw |-> str(amount1.val),
                 sqrtPriceX96 |-> str(sqrtPriceX96.val),
                 liquidity |-> str(liquidity.val),
                 tick |-> tick.val])

\* lines 58-65, on slots
uniswap_slots(slots) ==
    IF Len(slots) < 5 THEN Return(NoneDict)
    ELSE uniswap_fields(int256_from_hexslot(slots[1]),
                        int256_from_hexslot(slots[2]),
                        int16(slots[3]), int16(slots[4]),
                        int256_from_hexslot(slots[5]))

\* lines 57-65, on data; None has no startswith
uniswap_data(data) ==
    IF data = NoneVal THEN Raise("AttributeError")
    ELSE uniswap_slots(split_32byte_chunks(data))

decode_uniswap_like(log) == uniswap_data(dictget(log, "data", <<"0", "x">>))

\* line 71, on int(slots[0], 16)
aave_fields(amount) ==
    IF amount.exc # "none" THEN amount
    ELSE Return([amount_raw |-> str(amount.val)])

\* lines 70-71, on slots
aave_slots(slots) ==
    IF Len(slots) = 0 THEN Return(NoneDict) ELSE aave_fields(int16(slots[1]))

\* lines 69-71, on data
aave_data(data) ==
    IF data = NoneVal THEN Raise("AttributeError")
    ELSE aave_slots(split_32byte_chunks(data))

decode_aave_like(log) == aave_data(dictget(log, "data", <<"0", "x">>))

(***************************************************************************)
(* Body of the for loop of stream_decode_from_file (lines 80-123): what    *)
(* one iteration computes from the record alone.  event_type is a local    *)
(* of the generator that only some branches assign; `assigns` tells        *)
(* whether this iteration assigns it.                                      *)
(***************************************************************************)
Unbound == "<unbound>"

\* GenericTopic with len(tv) >= 64 alone for the test of line 117
GenericTopic_anylong(t) ==
    IF ~Truthy(t) THEN NoneVal
    ELSE LET tv == lower(t)
         IN  IF Len(tv) >= 64
             THEN <<"0", "x">> \o SliceLast(tv, 40)
             ELSE tv

GenericTopic(t) ==
    IF ~Truthy(t) THEN NoneVal
    ELSE LET tv == lower(t)
         IN  IF startswith0x(tv) /\ Len(tv) >= 66
             THEN <<"0", "x">> \o SliceLast(tv, 40)
             ELSE tv

Branch(e, decoded, human, assigns, et) ==
    [exc |-> e, decoded |-> decoded, human |-> human,
     assigns |-> assigns, event_type |-> et]

\* lines 89-91 and 93-95, on what decode_erc20_transfer gave
TokenBranch(event_name, proto, d) ==
    IF d.exc # "none"
    THEN Branch(d.exc, NoneDict, NoneDict, FALSE, Unbound)
    ELSE Branch("none", d.val,
                [template |-> event_name, value |-> d.val.value,
                 name |-> proto.name],
                TRUE, event_name)

\* lines 97-101 and 103-107, on what the decoder gave: event_type is
\* assigned only when enriched is truthy
EnrichedBranch(enriched, human, tag) ==
    IF enriched.exc # "none"
    THEN Branch(enriched.exc, NoneDict, NoneDict, FALSE, Unbound)
    ELSE IF enriched.val # NoneDict
    THEN Branch("none", enriched.val, [template |-> human], TRUE, tag)
    ELSE Branch("none", NoneDict, NoneDict, FALSE, Unbound)

\* lines 110-123, on data_int and log.get("topics", [])
GenericBranch(data_int, ts) ==
    IF data_int.exc # "none"
    THEN Branch(data_int.exc, NoneDict, NoneDict, FALSE, Unbound)
    ELSE IF ts = NoneVal
    THEN Branch("TypeError", NoneDict, NoneDict, FALSE, Unbound)
    ELSE Branch("none",
                [topics |-> [i \in 1..Len(ts) |-> GenericTopic(ts[i])],
                 data_int |-> str(data_int.val)],
                [template |-> "Generic event (topics+data)"],
                TRUE, "Generic")

\* lines 88-123, on proto and event_name
SelectBranch(log, proto, event_name) ==
    IF /\ event_name \in {"Transfer", "Approval"}
       /\ proto # NoneDict /\ dictget(proto, "type", "None") = "token"
    THEN TokenBranch(event_name, proto, decode_erc20_transfer(log, proto))
    ELSE IF proto # NoneDict /\ dictget(proto, "subtype", "None") = "uniswap_v3"
    THEN EnrichedBranch(decode_uniswap_like(log),
                        "Uniswap-like swap/mint/burn (raw values)",
                        "Uniswap:SwapLike")
    ELSE IF proto # NoneDict /\ dictget(proto, "subtype", "None") = "aave_v3"
    THEN EnrichedBranch(decode_aave_like(log),
                        "Aave-like event (raw amount)", "Aave:Event")
    ELSE GenericBranch(hex_to_int(dictget(log, "data", <<"0", "x", "0">>)),
                       dictget(log, "topics", <<>>))

\* lines 82-85, on log.get("topics")
EventName(topics) ==
    IF Truthy(topics) /\ Len(topics) > 0 /\ Truthy(topics[1])
       /\ lower(topics[1]) \in DOMAIN EVENT_SIG_MAP
    THEN EVENT_SIG_MAP[lower(topics[1])] ELSE "None"

\* lines 80-123, on addr
LoopFrom(log, addr) ==
    [addr |-> addr,
     proto |-> IF addr \in DOMAIN KNOWN THEN KNOWN[addr] ELSE NoneDict,
     event_name |-> EventName(dictget(log, "topics", NoneVal))]

LoopWith(log, head) ==
    head @@ SelectBranch(log, head.proto, head.event_name)

LoopBody(log) ==
    LoopWith(log, LoopFrom(log, normalize_addr(dictget(log, "address", <<>>))))

(***************************************************************************)
(* Inputs: the log records a payload may hold                              *)
(***************************************************************************)
UpperChar(c) ==
    CASE c = "a" -> "A" [] c = "b" -> "B" [] c = "c" -> "C" [] c = "d" -> "D"
      [] c = "e" -> "E" [] c = "f" -> "F" [] OTHER -> c

\* the same hex string with its digits in upper case
UpperHex(s) == [i \in 1..Len(s) |-> UpperChar(s[i])]

\* the 32-byte topic that carries the 20-byte address a
AddrTopic(a) == <<"0", "x">> \o Rep("0", 24) \o SliceFrom(a, 2)

ADDR_UNREG == <<"0", "x">> \o Rep("9", 40)
SIG_UNKNOWN == <<"0", "x">> \o Rep("c", 24) \o Rep("d", 40)

LogTransfer ==
    [address |-> UpperHex(ADDR_USDC),
     topics |-> <<SIG_TRANSFER, UpperHex(AddrTopic(ADDR_WBTC)), AddrTopic(ADDR_AAVE)>>,
     data |-> <<"0", "x">> \o Rep("0", 63) \o <<"5">>,
     transactionHash |-> <<"0", "x", "a", "1">>, blockNumber |-> 100, logIndex |-> 0]

LogApproval ==
    [address |-> ADDR_WBTC,
     topics |-> <<UpperHex(SIG_APPROVAL), AddrTopic(ADDR_USDT)>>,
     data |-> <<"0", "x">>,
     transactionHash |-> <<"0", "x", "a", "2">>, blockNumber |-> 100, logIndex |-> 1]

LogTransferBare ==
    [address |-> ADDR_USDT, topics |-> <<SIG_TRANSFER>>,
     transactionHash |-> <<"0", "x", "a", "3">>, blockNumber |-> 101, logIndex |-> 0]

LogGeneric ==
    [address |-> ADDR_UNREG,
     topics |-> <<UpperHex(SIG_UNKNOWN), Rep("A", 24) \o Rep("b", 40),
                  <<"0", "x", "A", "B">>, NoneVal, <<>>>>,
     data |-> Rep("f", 8),
     blockNumber |-> 102, logIndex |-> 0]

LogAmmShort ==
    [address |-> ADDR_UNISWAP, topics |-> <<SIG_UNKNOWN>>,
     data |-> <<"0", "x">> \o Rep("0", 63) \o <<"1">> \o Rep("0", 63) \o <<"2">>
              \o Rep("0", 63) \o <<"3">>,
     transactionHash |-> <<"0", "x", "a", "6">>, blockNumber |-> 102, logIndex |-> 1]

LogAmmFull ==
    [address |-> UpperHex(ADDR_UNISWAP), topics |-> <<SIG_TRANSFER>>,
     data |-> <<"0", "x">> \o Rep("f", 64) \o (<<"8">> \o Rep("0", 63))
              \o (<<"7">> \o Rep("f", 63)) \o Rep("F", 64)
              \o (Rep("f", 63) \o <<"e">>),
     transactionHash |-> <<"0", "x", "a", "7">>, blockNumber |-> 103, logIndex |-> 0]

LogAaveEmpty ==
    [address |-> ADDR_AAVE, data |-> <<"0", "x">>,
     transactionHash |-> <<"0", "x", "a", "8">>, blockNumber |-> 103, logIndex |-> 1]

LogAaveOne ==
    [address |-> ADDR_AAVE, topics |-> <<SIG_APPROVAL>>,
     data |-> <<"0", "x", "1", "2", "3", "4">>,
     transactionHash |-> <<"0", "x", "a", "9">>, blockNumber |-> 104, logIndex |-> 0]

LogBadHex ==
    [address |-> ADDR_UNREG, topics |-> <<>>,
     data |-> <<"0", "x", "z", "z">>,
     transactionHash |-> <<"0", "x", "a", "a">>, blockNumber |-> 104, logIndex |-> 1]

RecordNames ==
    {"LogTransfer", "LogApproval", "LogTransferBare", "LogGeneric",
     "LogAmmShort", "LogAmmFull", "LogAaveEmpty", "LogAaveOne", "LogBadHex"}

\* the records by name; the state holds the names
Records ==
    [n \in RecordNames |->
       CASE n = "LogTransfer" -> LogTransfer
         [] n = "LogApproval" -> LogApproval
         [] n = "LogTransferBare" -> LogTransferBare
         [] n = "LogGeneric" -> LogGeneric
         [] n = "LogAmmShort" -> LogAmmShort
         [] n = "LogAmmFull" -> LogAmmFull
         [] n = "LogAaveEmpty" -> LogAaveEmpty
         [] n = "LogAaveOne" -> LogAaveOne
         [] n = "LogBadHex" -> LogBadHex]

\* LoopBody over the records of the model, computed once
Body == [n \in RecordNames |-> LoopBody(Records[n])]

(***************************************************************************)
(* The files and command lines of the model                                *)
(***************************************************************************)
MaxLogs == 4

PROG == "streaming_decoder.py"

FileNames ==
    {"a.json", "b.json", "missing.json", "out.ndjson", "sample_zeru.json",
     "streamed_decoded.ndjson"}

\* the files that exist when the process starts; each holds a JSON payload
ExistingFiles == {"a.json", "b.json", "sample_zeru.json"}

ArgvChoices ==
    {<<PROG>>, <<PROG, "a.json">>, <<PROG, "a.json", "b.json">>,
     <<PROG, "a.json", "a.json">>, <<PROG, "a.json", "missing.json">>,
     <<PROG, "out.ndjson", "a.json", "b.json">>}

\* the payloads with a "logs" key, whose logs are any records of the model;
\* the payload of b.json has none and payload.get("logs", []) is empty
FilesWithLogs == {"a.json", "sample_zeru.json"}

\* the top-level keys, other than "logs", of the payload each input file holds
PayloadHeader ==
    [f \in FileNames |->
       CASE f = "a.json" -> [chain |-> "ethereum"]
         [] f = "b.json" -> [metadata |-> [chain |-> "polygon"]]
         [] OTHER -> [metadata |-> <<>>]]

(***************************************************************************)
(* State                                                                   *)
(***************************************************************************)
VARIABLES
    argv,         \* sys.argv
    fs,           \* per file: "absent", "payload" (a JSON payload), "output"
                  \* (opened for writing: truncated, receives the NDJSON lines)
    pc,           \* "start", "files", "stream", "exit", "crashed"
    exc,          \* the exception that ended the process, "none" otherwise
    out_file,     \* main: out_file ("None" for None)
    input_files,  \* main: input_files
    writer,       \* main: the file writer writes to ("None" for None)
    inp,          \* main: position of the for loop in input_files
    reads,        \* the files opened for reading so far, in order
    chain,        \* stream_decode_from_file: chain
    logs,         \* the records the for loop has taken from payload["logs"]
    event_type,   \* stream_decode_from_file: event_type, Unbound before the
                  \* first assignment
    output,       \* the lines written so far (to writer, or printed when
                  \* writer is None), one decoded event each
    base,         \* Len(output) when the current input file was opened
    clock,        \* datetime.datetime.utcnow(), a counter of its calls
    call          \* a direct call of a helper, as the unit tests make them:
                  \* the function, its argument and what it returned

vars == <<argv, fs, pc, exc, out_file, input_files, writer, inp, reads, chain,
          logs, event_type, output, base, clock, call>>

\* the variables of the script run
run == <<argv, fs, pc, exc, out_file, input_files, writer, inp, reads, chain,
         logs, event_type, output, base, clock>>

NoCall == [fn |-> "none"]

\* the events the generator has yielded for the current input file
emitted == SubSeq(output, base + 1, Len(output))

\* what is printed on stdout, what is written through writer
stdout == IF writer = "None" THEN output ELSE <<>>
written == IF writer = "None" THEN <<>> ELSE output

Init ==
    /\ argv \in ArgvChoices
    /\ fs = [f \in FileNames |-> IF f \in ExistingFiles THEN "payload" ELSE "absent"]
    /\ pc = "start"
    /\ exc = "none"
    /\ out_file = "None"
    /\ input_files = <<>>
    /\ writer = "None"
    /\ inp = 1
    /\ reads = <<>>
    /\ chain = "unknown"
    /\ logs = <<>>
    /\ event_type = Unbound
    /\ output = <<>>
    /\ base = 0
    /\ clock = 0
    /\ call = NoCall

(***************************************************************************)
(* main and the __main__ block (lines 141-165)                             *)
(***************************************************************************)
\* lines 158-165 and 142-149: default the arguments, take out_file and
\* input_files from them, open the writer
Start ==
    /\ pc = "start"
    /\ LET args == IF Len(argv) = 1
                   THEN <<argv[1], "streamed_decoded.ndjson", "sample_zeru.json">>
                   ELSE argv
           of == IF Len(args) >= 2 THEN args[2] ELSE "None"
       IN  /\ out_file' = of
           /\ input_files' = IF Len(args) > 2 THEN SubSeq(args, 3, Len(args))
                             ELSE <<"sample_zeru.json">>
           /\ writer' = of
           /\ fs' = IF of # "None" THEN [fs EXCEPT ![of] = "output"] ELSE fs
    /\ pc' = "files"
    /\ inp' = 1
    /\ UNCHANGED <<argv, exc, reads, chain, logs, event_type, output, base, clock, call>>

\* lines 150-151 and 75-78: the next input file is opened and loaded
OpenInput ==
    /\ pc = "files"
    /\ inp <= Len(input_files)
    /\ LET f == input_files[inp]
           payload == PayloadHeader[f]
       IN  IF fs[f] = "absent"
           THEN /\ pc' = "crashed" /\ exc' = "FileNotFoundError"
                /\ UNCHANGED <<reads, chain, logs, event_type, base>>
           ELSE IF fs[f] = "output"
           THEN \* truncated by open(out_file, "w"): json.load finds no document
                /\ pc' = "crashed" /\ exc' = "JSONDecodeError"
                /\ reads' = Append(reads, f)
                /\ UNCHANGED <<chain, logs, event_type, base>>
           ELSE /\ pc' = "stream" /\ exc' = "none"
                /\ reads' = Append(reads, f)
                /\ chain' = dictget(payload, "chain",
                                    dictget(dictget(payload, "metadata", <<>>),
                                            "chain", "unknown"))
                /\ logs' = <<>>
                /\ event_type' = Unbound
                /\ base' = Len(output)
    /\ UNCHANGED <<argv, fs, out_file, input_files, writer, inp, output, clock, call>>

\* lines 124-138: the DecodedEvent of record log
DecodedEvent(log, b, et, now) ==
    [decodedAt |-> now,
     chain |-> chain,
     transactionHash |-> dictget(log, "transactionHash", NoneVal),
     blockNumber |-> dictget(log, "blockNumber", NoneVal),
     logIndex |-> dictget(log, "logIndex", NoneVal),
     contractAddress |-> b.addr,
     protocol |-> IF b.proto # NoneDict THEN dictget(b.proto, "name", "None") ELSE "None",
     protocolType |-> IF b.proto # NoneDict THEN dictget(b.proto, "type", "None") ELSE "None",
     eventType |-> et,
     eventName |-> IF b.event_name # "None" THEN b.event_name ELSE et,
     decoded |-> b.decoded,
     humanReadable |-> b.human,
     raw |-> [topics |-> dictget(log, "topics", NoneVal),
              data |-> dictget(log, "data", NoneVal)]]

\* lines 79-139 and 151-156: one iteration of the for loop over the logs of
\* the current payload, on record log, and the write of its line
NextLog(log) ==
    /\ pc = "stream"
    /\ input_files[inp] \in FilesWithLogs
    /\ Len(output) + Len(logs) - Len(emitted) < MaxLogs
    /\ logs' = Append(logs, log)
    /\ \E b \in {Body[log]} :
       \E et \in {IF b.assigns THEN b.event_type ELSE event_type} :
          IF b.exc # "none"
          THEN /\ pc' = "crashed" /\ exc' = b.exc
               /\ UNCHANGED <<event_type, output, clock>>
          ELSE IF et = Unbound
          THEN \* line 133 reads event_type before any assignment
               /\ pc' = "crashed" /\ exc' = "UnboundLocalError"
               /\ clock' = clock + 1
               /\ UNCHANGED <<event_type, output>>
          ELSE /\ pc' = "stream" /\ exc' = "none"
               /\ event_type' = et
               /\ clock' = clock + 1
               /\ output' = Append(output, DecodedEvent(Records[log], b, et, clock))
    /\ UNCHANGED <<argv, fs, out_file, input_files, writer, inp, reads, chain, base, call>>

\* the generator is exhausted: main goes on to the next input file
EndOfLogs ==
    /\ pc = "stream"
    /\ pc' = "files"
    /\ inp' = inp + 1
    /\ UNCHANGED <<argv, fs, exc, out_file, input_files, writer, reads, chain,
                   logs, event_type, output, base, clock, call>>

\* main returns
Exit ==
    /\ pc = "files"
    /\ inp > Len(input_files)
    /\ pc' = "exit"
    /\ UNCHANGED <<argv, fs, exc, out_file, input_files, writer, inp, reads,
                   chain, logs, event_type, output, base, clock, call>>

Next ==
    \/ Start
    \/ OpenInput
    \/ \E log \in RecordNames : NextLog(log)
    \/ EndOfLogs
    \/ Exit

Spec == Init /\ [][Next]_vars

(***************************************************************************)
(* Direct calls of the helpers and of the AMM decoder, one call per        *)
(* behaviour, on hex strings drawn from the sets below                     *)
(***************************************************************************)
MaxHexLen == 130

HexDigits ==
    <<"0","1","2","3","4","5","6","7","8","9","a","b","c","d","e","f">>

\* n hex digits, the i-th one being digit i * k modulo 16
Pattern(k, n) == [i \in 1..n |-> HexDigits[((i * k) % 16) + 1]]

\* payloads of every length up to MaxHexLen, with and without the prefix
Payloads ==
    {p \o Pattern(k, n) : p \in {<<>>, <<"0", "x">>}, k \in {0, 3, 15},
                          n \in 0..MaxHexLen}

\* 32-byte slots: every leading digit before three tails
Slots ==
    {<<c>> \o tail : c \in DOMAIN HexVal,
                     tail \in {Rep("0", 63), Rep("f", 63), Pattern(3, 63)}}

\* the slots the AMM payloads are made of
AmmSlots ==
    {Rep("f", 64), <<"8">> \o Rep("0", 63), <<"7">> \o Rep("F", 63)}

\* payloads of five slots
AmmPayloads ==
    {<<"0", "x">> \o s0 \o s1 \o s2 \o s3 \o s4 :
        s0 \in AmmSlots, s1 \in AmmSlots, s2 \in AmmSlots, s3 \in AmmSlots,
        s4 \in AmmSlots}

HexInputs == Payloads \cup Slots \cup AmmPayloads

InitCalls ==
    /\ argv = <<PROG>>
    /\ fs = [f \in FileNames |-> IF f \in ExistingFiles THEN "payload" ELSE "absent"]
    /\ pc = "start"
    /\ exc = "none"
    /\ out_file = "None"
    /\ input_files = <<>>
    /\ writer = "None"
    /\ inp = 1
    /\ reads = <<>>
    /\ chain = "unknown"
    /\ logs = <<>>
    /\ event_type = Unbound
    /\ output = <<>>
    /\ base = 0
    /\ clock = 0
    /\ call \in {[fn |-> "none", arg |-> a] : a \in HexInputs}

CallSplit ==
    /\ call.fn = "none"
    /\ call' = [fn |-> "split_32byte_chunks", arg |-> call.arg,
                ret |-> Return(split_32byte_chunks(call.arg))]
    /\ UNCHANGED run

CallHexToInt ==
    /\ call.fn = "none"
    /\ call' = [fn |-> "hex_to_int", arg |-> call.arg,
                ret |-> hex_to_int(call.arg)]
    /\ UNCHANGED run

CallInt256 ==
    /\ call.fn = "none"
    /\ call' = [fn |-> "int256_from_hexslot", arg |-> call.arg,
                ret |-> int256_from_hexslot(call.arg)]
    /\ UNCHANGED run

CallUniswap ==
    /\ call.fn = "none"
    /\ call' = [fn |-> "decode_uniswap_like", arg |-> call.arg,
                ret |-> decode_uniswap_like([data |-> call.arg])]
    /\ UNCHANGED run

NextCalls == CallSplit \/ CallHexToInt \/ CallInt256 \/ CallUniswap

SpecCalls == InitCalls /\ [][NextCalls]_vars

(***************************************************************************)
(* What the specification says of a hex string                             *)
(***************************************************************************)
\* the payload after its optional "0x" prefix
Stripped(d) ==
    IF Len(d) >= 2 /\ d[1] = "0" /\ d[2] = "x" THEN SubSeq(d, 3, Len(d)) ELSE d

IsHex(s) == \A i \in 1..Len(s) : IsHexChar(s[i])

IsSlot(s) == Len(s) = 64 /\ IsHex(s)

RECURSIVE Concat(_)
Concat(ss) == IF ss = <<>> THEN <<>> ELSE Head(ss) \o Concat(Tail(ss))

\* the top bit of a slot is the top bit of its first hex digit
TopBitSet(s) == HexVal[s[1]] >= 8

\* -2^255, 2^255 - 1 and 2^256
MinInt256 == CHOOSE r \in {IntNeg(p) : p \in {Pow2(255)}} : TRUE
MaxInt256 == CHOOSE r \in {IntSub(p, IntOf(1)) : p \in {Pow2(255)}} : TRUE
TwoTo256 == CHOOSE r \in {IntAdd(p, p) : p \in {Pow2(255)}} : TRUE

\* the two's-complement value of a slot, from its unsigned value
SignedOf(s) ==
    LET u == hex_to_int(s).val
    IN  IF TopBitSet(s) THEN IntSub(u, TwoTo256) ELSE u

(***************************************************************************)
(* What the specification says of a log record                             *)
(***************************************************************************)
\* left * 2**n + right, each step on a value
ShiftAdd(left, n, right) ==
    CHOOSE r \in {MagAddC(shifted, right, 0) : shifted \in {MagShl(left, n)}} : TRUE

RECURSIVE BigEndian(_, _, _)
\* the magnitude of the hex digits s[lo..hi] read as a big-endian number:
\* the left half times 16 to the length of the right half, plus the right
BigEndian(s, lo, hi) ==
    IF lo > hi THEN <<>>
    ELSE IF lo = hi THEN MagMulAdd(<<>>, 0, HexVal[s[lo]])
    ELSE LET mid == (lo + hi) \div 2
         IN  CHOOSE r \in {ShiftAdd(left, 4 * (hi - mid), right) :
                              left \in {BigEndian(s, lo, mid)},
                              right \in {BigEndian(s, mid + 1, hi)}} : TRUE

\* the unsigned value of a data payload; 0 when it is absent or empty
UnsignedOf(h) ==
    IF h = NoneVal \/ h = <<>> THEN IntOf(0)
    ELSE CHOOSE r \in {MkInt(FALSE, BigEndian(d, 1, Len(d))) : d \in {Stripped(h)}} : TRUE

DecimalDigit(c) == CHOOSE v \in 0..9 : LimbDigits[v + 1] = c

RECURSIVE Horner10(_, _, _, _)
Horner10(s, lo, hi, acc) ==
    IF lo > hi THEN acc
    ELSE IF lo = hi THEN MagMulAdd(acc, 10, DecimalDigit(s[lo]))
    ELSE LET mid == (lo + hi) \div 2
         IN  CHOOSE r \in {Horner10(s, mid + 1, hi, left) :
                             left \in {Horner10(s, lo, mid, acc)}} : TRUE

\* s is the decimal string of the natural number x
IsDecimalOf(s, x) ==
    /\ Len(s) >= 1
    /\ \A i \in 1..Len(s) : \E v \in 0..9 : LimbDigits[v + 1] = s[i]
    /\ Len(s) = 1 \/ s[1] # "0"
    /\ MkInt(FALSE, Horner10(s, 1, Len(s), <<>>)) = x

\* the last 20 bytes of a 32-byte topic, as "0x" and 40 hex digits
Last20Bytes(t) == <<"0", "x">> \o SubSeq(t, Len(t) - 39, Len(t))

\* the registry entry of the record's contract, looked up case-insensitively
EntryOf(rec) ==
    LET a == lower(dictget(rec, "address", <<>>))
    IN  IF a \in DOMAIN KNOWN THEN KNOWN[a] ELSE NoneDict

\* the event name of topics[0], looked up case-insensitively
SigNameOf(rec) ==
    LET t == dictget(rec, "topics", <<>>)
    IN  IF Len(t) >= 1 /\ t[1] # NoneVal /\ lower(t[1]) \in DOMAIN EVENT_SIG_MAP
        THEN EVENT_SIG_MAP[lower(t[1])] ELSE "None"

SubtypeOf(rec) ==
    IF EntryOf(rec) = NoneDict THEN "None"
    ELSE dictget(EntryOf(rec), "subtype", "None")

\* the number of 32-byte slots of the record's data
SlotCountOf(rec) ==
    (Len(Stripped(dictget(rec, "data", <<>>))) + 63) \div 64

\* topics[0] is the Transfer or Approval hash and the contract a registered token
TokenEventOf(rec) ==
    /\ SigNameOf(rec) \in {"Transfer", "Approval"}
    /\ EntryOf(rec) # NoneDict
    /\ dictget(EntryOf(rec), "type", "None") = "token"

\* the tag of the branch the fixed priority selects for the record
TagOf(rec) ==
    IF TokenEventOf(rec) THEN SigNameOf(rec)
    ELSE IF SubtypeOf(rec) = "uniswap_v3" /\ SlotCountOf(rec) >= 5
    THEN "Uniswap:SwapLike"
    ELSE IF SubtypeOf(rec) = "aave_v3" /\ SlotCountOf(rec) >= 1
    THEN "Aave:Event"
    ELSE "Generic"

\* the specialised decoder selected for the record returns absent
AbsentSpecialisedOf(rec) ==
    /\ ~TokenEventOf(rec)
    /\ \/ SubtypeOf(rec) = "uniswap_v3" /\ SlotCountOf(rec) < 5
       \/ SubtypeOf(rec) = "aave_v3" /\ SlotCountOf(rec) = 0

\* the record's data holds a character that is no hex digit
MalformedHexOf(rec) == ~IsHex(Stripped(dictget(rec, "data", <<>>)))

\* a topic as the generic decoder normalises it: reduced when it holds 32
\* bytes or more, with or without the prefix
TopicAsClaimed(t) ==
    IF t = NoneVal THEN NoneVal
    ELSE IF Len(Stripped(lower(t))) >= 64 THEN Last20Bytes(lower(t))
    ELSE lower(t)

\* the same, reduced only when it starts with "0x" and holds 66 characters
\* or more, an empty topic becoming null
TopicAsAmended(t) ==
    IF t = NoneVal \/ t = <<>> THEN NoneVal
    ELSE IF Len(t) >= 66 /\ lower(SubSeq(t, 1, 2)) = <<"0", "x">>
    THEN Last20Bytes(lower(t))
    ELSE lower(t)

\* per record of the model, computed once
Expected ==
    [n \in RecordNames |->
       LET rec == Records[n]
           t == dictget(rec, "topics", <<>>)
       IN  [tokenEvent |-> TokenEventOf(rec),
            tag |-> TagOf(rec),
            absentSpecialised |-> AbsentSpecialisedOf(rec),
            malformedHex |-> MalformedHexOf(rec),
            unrecognised |-> EntryOf(rec) = NoneDict /\ SigNameOf(rec) = "None",
            from |-> IF Len(t) >= 2 /\ Len(t[2]) >= 40
                     THEN Last20Bytes(t[2]) ELSE NoneVal,
            to |-> IF Len(t) >= 3 /\ Len(t[3]) >= 40
                   THEN Last20Bytes(t[3]) ELSE NoneVal,
            value |-> IF MalformedHexOf(rec) THEN NoneVal
                      ELSE UnsignedOf(dictget(rec, "data", <<>>)),
            decimals |-> IF EntryOf(rec) = NoneDict THEN 18
                         ELSE dictget(EntryOf(rec), "decimals", 18),
            topicsAsClaimed |-> [k \in 1..Len(t) |-> TopicAsClaimed(t[k])],
            topicsAsAmended |-> [k \in 1..Len(t) |-> TopicAsAmended(t[k])],
            transactionHash |-> dictget(rec, "transactionHash", NoneVal),
            blockNumber |-> dictget(rec, "blockNumber", NoneVal),
            logIndex |-> dictget(rec, "logIndex", NoneVal),
            rawTopics |-> dictget(rec, "topics", NoneVal),
            rawData |-> dictget(rec, "data", NoneVal)]]

(***************************************************************************)
(* C1: a payload whose logs are n records yields exactly n events, the     *)
(* i-th carrying the i-th record's transactionHash, blockNumber, logIndex  *)
(* and raw topics and data.  At every point of the stream the events       *)
(* yielded are as many as the records taken, in the same order.            *)
(***************************************************************************)
C1_OneEventPerRecord ==
    /\ Len(emitted) = Len(logs)
    /\ \A i \in 1..Len(emitted) :
          /\ emitted[i].transactionHash = Expected[logs[i]].transactionHash
          /\ emitted[i].blockNumber = Expected[logs[i]].blockNumber
          /\ emitted[i].logIndex = Expected[logs[i]].logIndex
          /\ emitted[i].raw = [topics |-> Expected[logs[i]].rawTopics,
                               data |-> Expected[logs[i]].rawData]

(***************************************************************************)
(* C2: a record whose data holds non-hex characters does not abort the     *)
(* stream: it gets one event of type Generic (or a DecodeError marker)     *)
(* with raw populated, and every later record gets its event too.          *)
(***************************************************************************)
C2_MalformedHexDoesNotAbort ==
    \A i \in 1..Len(logs) :
        Expected[logs[i]].malformedHex =>
            /\ pc # "crashed"
            /\ Len(emitted) = Len(logs)
            /\ emitted[i].eventType \in {"Generic", "DecodeError"}
            /\ emitted[i].raw = [topics |-> Expected[logs[i]].rawTopics,
                                 data |-> Expected[logs[i]].rawData]

(***************************************************************************)
(* C3: when the specialised decoder selected for a record returns absent   *)
(* (AMM contract with fewer than 5 slots, lending contract with no slot),  *)
(* the event emitted for it is the generic decoder's: eventType Generic,   *)
(* decoded the normalised topics and the data value, and the generic       *)
(* template, wherever the record sits in the stream.                       *)
(***************************************************************************)
C3_AbsentFallsThroughToGeneric ==
    \A i \in 1..Len(logs) :
        Expected[logs[i]].absentSpecialised =>
            /\ i <= Len(emitted)
            /\ emitted[i].eventType = "Generic"
            /\ emitted[i].decoded # NoneDict
            /\ emitted[i].decoded.topics = Expected[logs[i]].topicsAsAmended
            /\ IsDecimalOf(emitted[i].decoded.data_int, Expected[logs[i]].value)
            /\ emitted[i].humanReadable = [template |-> "Generic event (topics+data)"]

(***************************************************************************)
(* C4: decoding does not depend on the records decoded before: the same    *)
(* record at two places of a stream gives events equal in every field      *)
(* except decodedAt.                                                       *)
(***************************************************************************)
C4_HistoryIndependent ==
    \A i, j \in 1..Len(emitted) :
        logs[i] = logs[j] =>
            [emitted[i] EXCEPT !.decodedAt = 0] = [emitted[j] EXCEPT !.decodedAt = 0]

(***************************************************************************)
(* C5: in every emitted event eventType is the tag of the branch the       *)
(* fixed priority selects for that record: Transfer or Approval iff        *)
(* topics[0] maps to it and the contract is a registered token, else the   *)
(* AMM tag iff the subtype is the AMM one and the data has 5 slots or      *)
(* more, else the lending tag iff the subtype is the lending one and the   *)
(* data has a slot, else Generic.                                          *)
(***************************************************************************)
C5_TagNamesBranch ==
    \A i \in 1..Len(emitted) : emitted[i].eventType = Expected[logs[i]].tag

(***************************************************************************)
(* C6: for every record whose topics[0] is the Transfer or Approval hash   *)
(* and whose address is a registered token, decoded.from is "0x" and the   *)
(* last 20 bytes of topics[1], decoded.to the same of topics[2] (null      *)
(* with fewer than 2, resp. 3, topics), value_raw the decimal string of    *)
(* the unsigned big-endian value of the data (0 for empty or "0x" data)    *)
(* and decimals the registry entry's decimals (18 when it has none).       *)
(***************************************************************************)
C6_TokenEventDecoded ==
    \A i \in 1..Len(emitted) :
        Expected[logs[i]].tokenEvent =>
            /\ emitted[i].decoded # NoneDict
            /\ emitted[i].decoded.from = Expected[logs[i]].from
            /\ emitted[i].decoded.to = Expected[logs[i]].to
            /\ IsDecimalOf(emitted[i].decoded.value_raw, Expected[logs[i]].value)
            /\ emitted[i].decoded.decimals = Expected[logs[i]].decimals

\* a Transfer of value 5 with both addresses and a Transfer with topics[0]
\* alone and no data have been decoded
C6_Witness ==
    \E i, j \in 1..Len(emitted) :
        /\ logs[i] = "LogTransfer"
        /\ emitted[i].decoded.value_raw = <<"5">>
        /\ emitted[i].decoded.to = ADDR_AAVE
        /\ logs[j] = "LogTransferBare"
        /\ emitted[j].decoded.from = NoneVal
        /\ emitted[j].decoded.value_raw = <<"0">>

(***************************************************************************)
(* C7 as claimed: for every record from an unregistered address with no    *)
(* recognised signature the event has eventType Generic and decoded.topics *)
(* of the input's length and order, every non-null topic of 32 bytes or    *)
(* more (64 hex digits, with or without "0x") replaced by its last 20      *)
(* bytes and every shorter one passed through lowercased; data_int is the  *)
(* decimal string of the unsigned value of data.                           *)
(***************************************************************************)
C7_GenericAsClaimed ==
    \A i \in 1..Len(emitted) :
        Expected[logs[i]].unrecognised =>
            /\ emitted[i].eventType = "Generic"
            /\ emitted[i].decoded # NoneDict
            /\ emitted[i].decoded.topics = Expected[logs[i]].topicsAsClaimed
            /\ IsDecimalOf(emitted[i].decoded.data_int, Expected[logs[i]].value)

(***************************************************************************)
(* C7 as amended: the same, where a topic is replaced by "0x" and its last *)
(* 20 bytes only when, lowercased, it starts with "0x" and has 66          *)
(* characters or more; a null or empty topic gives null; every other       *)
(* topic is passed through lowercased.                                     *)
(***************************************************************************)
C7_GenericAsAmended ==
    \A i \in 1..Len(emitted) :
        Expected[logs[i]].unrecognised =>
            /\ emitted[i].eventType = "Generic"
            /\ emitted[i].decoded # NoneDict
            /\ emitted[i].decoded.topics = Expected[logs[i]].topicsAsAmended
            /\ IsDecimalOf(emitted[i].decoded.data_int, Expected[logs[i]].value)

\* a record with a prefixed long topic, an unprefixed one of 64 digits, a
\* short one, a null and an empty one has been decoded
C7_Witness ==
    \E i \in 1..Len(emitted) :
        /\ logs[i] = "LogGeneric"
        /\ Len(emitted[i].decoded.topics) = 5
        /\ Len(emitted[i].decoded.topics[1]) = 42
        /\ Len(emitted[i].decoded.topics[2]) = 64
        /\ emitted[i].decoded.topics[5] = NoneVal

(***************************************************************************)
(* C10: invoked as the usage line documents, with the input files as the   *)
(* arguments, every file named on the command line is read as an input,    *)
(* in argument order, none of them is opened for writing, and the events   *)
(* go to stdout.                                                           *)
(***************************************************************************)
C10_UsageLine ==
    (pc # "start" /\ Len(argv) >= 2) =>
        LET named == SubSeq(argv, 2, Len(argv))
        IN  /\ input_files = named
            /\ \A k \in 1..Len(named) : fs[named[k]] # "output"
            /\ Len(reads) <= Len(named)
            /\ reads = SubSeq(named, 1, Len(reads))
            /\ written = <<>>

(***************************************************************************)
(* C8: for every hex payload, with or without the "0x" prefix,             *)
(* split_32byte_chunks returns slots of exactly 64 hex characters each;    *)
(* the result is empty iff the stripped payload is empty; there are        *)
(* ceil(len / 64) slots; and their concatenation is the stripped payload   *)
(* left-padded with "0" to the next multiple of 64 (the payload itself     *)
(* when its length is a multiple of 64).                                   *)
(***************************************************************************)
C8_SlotsOf ==
    (call.fn = "split_32byte_chunks" /\ IsHex(Stripped(call.arg))) =>
        LET d == Stripped(call.arg)
            slots == call.ret.val
            pad == (64 - (Len(d) % 64)) % 64
        IN  /\ call.ret.exc = "none"
            /\ \A k \in 1..Len(slots) : IsSlot(slots[k])
            /\ (Len(slots) = 0) <=> (d = <<>>)
            /\ Len(slots) = (Len(d) + 63) \div 64
            /\ Concat(slots) = Rep("0", pad) \o d
            /\ (Len(d) % 64 = 0 => Concat(slots) = d)

\* a payload of MaxHexLen digits was split in three slots, the first padded
C8_Witness ==
    /\ call.fn = "split_32byte_chunks"
    /\ Len(Stripped(call.arg)) = 130
    /\ Len(call.ret.val) = 3
    /\ SubSeq(call.ret.val[1], 1, 62) = Rep("0", 62)

(***************************************************************************)
(* C9: for every slot of 64 hex characters int256_from_hexslot returns     *)
(* the unsigned value when the top bit is 0 and the unsigned value minus   *)
(* 2^256 when it is 1, so the result lies in [-2^255, 2^255 - 1] and       *)
(* "f" * 64 gives -1; decode_uniswap_like reads slots 0, 1 and 4 that way  *)
(* (amount0, amount1, tick) and slots 2 and 3 unsigned (sqrtPriceX96,      *)
(* liquidity).                                                             *)
(***************************************************************************)
C9_SignedSlots ==
    /\ (call.fn = "int256_from_hexslot" /\ IsSlot(call.arg)) =>
          /\ call.ret.exc = "none"
          /\ call.ret.val = SignedOf(call.arg)
          /\ IntGeq(call.ret.val, MinInt256)
          /\ IntGeq(MaxInt256, call.ret.val)
          /\ (call.arg = Rep("f", 64) => call.ret.val = IntOf(-1))
    /\ (/\ call.fn = "decode_uniswap_like"
        /\ IsHex(Stripped(call.arg))
        /\ Len(Stripped(call.arg)) >= 320
        /\ Len(Stripped(call.arg)) % 64 = 0) =>
          LET d == Stripped(call.arg)
              slot(k) == SubSeq(d, 64 * k + 1, 64 * k + 64)
          IN  /\ call.ret.exc = "none"
              /\ call.ret.val # NoneDict
              /\ call.ret.val.amount0_raw = str(SignedOf(slot(0)))
              /\ call.ret.val.amount1_raw = str(SignedOf(slot(1)))
              /\ call.ret.val.sqrtPriceX96 = str(hex_to_int(slot(2)).val)
              /\ call.ret.val.liquidity = str(hex_to_int(slot(3)).val)
              /\ call.ret.val.tick = SignedOf(slot(4))

\* the slot 0x80...0 was read as -2^255
C9_Witness ==
    /\ call.fn = "int256_from_hexslot"
    /\ call.arg = <<"8">> \o Rep("0", 63)
    /\ call.ret = Return(MinInt256)

====
